---- MODULE Spec2Model ----
\* Model of api/news.js: the cached, quota-limited news endpoint.
\*
\* The handler is an async function; JavaScript runs it to completion between
\* awaits, so one action models the code between two consecutive awaits that
\* matter for the shared state:
\*   Start      lines 11-70   entry .. the headline fetch is issued
\*   NewsReturn lines 72-146  headline fetch resolved .. the rewrite fetch is issued
\*   AIReturn   lines 148-197 rewrite fetch resolved .. the response is sent
\* Several requests (Reqs) may be between awaits at the same time.
\*
\* env holds the configuration of the deployment: whether the two keys are set
\* and how many invocations the platform runs at the same time.
\*
\* Time is counted in ticks.  CACHE_DURATION and MAX_DAILY_REQUESTS keep the
\* names of the source but are scaled down (30 minutes -> 2 ticks, 50 -> 1):
\* the handler only compares against them.
\*
\* An article is modelled by its title, a cached item by the fields
\* id, title, category, aiInsight, originalTitle (source, time, summary, url and
\* image are copied through by the code and read by nothing).
EXTENDS Integers, Sequences, FiniteSets, TLC

\* ---------------------------------------------------------------- bounds
MaxClock == 4
MaxArticles == 1
MaxInputLen == 4

\* ------------------------------------------------------ program constants
CACHE_DURATION == 2
\* ticks per calendar day, the granularity of toDateString() (line 21)
DayLength == 3
MAX_DAILY_REQUESTS == 1
PageSize == 3

\* the invocations that can be between awaits at the same time
Reqs == {1, 2}
Titles == {"A", "B"}

VARIABLES newsCache, cacheTimestamp, dailyRequestCount, lastResetDate,
          env, clock, req, last, cacheSource, resetLog

vars == <<newsCache, cacheTimestamp, dailyRequestCount, lastResetDate,
          env, clock, req, last, cacheSource, resetLog>>

\* ------------------------------------------------------------ data model
Min(a, b) == IF a < b THEN a ELSE b

\* new Date().toDateString(): the calendar date of an instant.
DateOf(t) == t \div DayLength

Article(t) == [title |-> t]

\* The batches the headline source can answer with: at most pageSize articles
\* (line 69), of which the model explores those of up to MaxArticles.
Batches ==
    UNION {[1..n -> {Article(t) : t \in Titles}] :
              n \in 0..Min(MaxArticles, PageSize)}

\* newsCache = null
NullCache == [isNull |-> TRUE, items |-> <<>>]

CacheOf(items) == [isNull |-> FALSE, items |-> items]

\* category of createFallbackNews items (line 226)
FALLBACK_CATEGORY == "finance-news"

\* the hint of line 225, used when no errorMessage is given
DEFAULT_HINT == "check API key and base URL"

\* Array.prototype.slice(0, n)
Slice(s, n) == SubSeq(s, 1, Min(n, Len(s)))

\* mutant: the items lose the change-detection key
createFallbackNewsNoKey(articles, errorMessage) ==
    [index \in 1..Len(Slice(articles, 3)) |->
        [id |-> index,
         title |-> articles[index].title,
         category |-> FALLBACK_CATEGORY,
         aiInsight |-> IF errorMessage = "" THEN DEFAULT_HINT ELSE errorMessage,
         originalTitle |-> "undefined"]]

createFallbackNews(articles, errorMessage) ==
    [index \in 1..Len(Slice(articles, 3)) |->
        [id |-> index,
         title |-> articles[index].title,
         category |-> FALLBACK_CATEGORY,
         aiInsight |-> IF errorMessage = "" THEN DEFAULT_HINT ELSE errorMessage,
         originalTitle |-> articles[index].title]]

getDefaultNews ==
    <<[id |-> 1,
       title |-> "welcome",
       category |-> "system-message",
       aiInsight |-> "setup-hint",
       originalTitle |-> "undefined"]>>

\* mutant: compares the titles as sets, whatever their order
articlesAreSameUnordered(newArticles, cachedNews) ==
    IF cachedNews.isNull \/ Len(newArticles) # Len(cachedNews.items)
    THEN FALSE
    ELSE {newArticles[i].title : i \in 1..Len(newArticles)} =
         {cachedNews.items[i].originalTitle : i \in 1..Len(newArticles)}

\* mutant: compares with the rewritten title instead of originalTitle
articlesAreSameByTitle(newArticles, cachedNews) ==
    IF cachedNews.isNull \/ Len(newArticles) # Len(cachedNews.items)
    THEN FALSE
    ELSE \A i \in 1..Len(newArticles) :
            newArticles[i].title = cachedNews.items[i].title

articlesAreSame(newArticles, cachedNews) ==
    IF cachedNews.isNull \/ Len(newArticles) # Len(cachedNews.items)
    THEN FALSE
    ELSE \A i \in 1..Len(newArticles) :
            newArticles[i].title = cachedNews.items[i].originalTitle

\* newsCache || getDefaultNews(): an array, even an empty one, is truthy.
CacheOrDefault(cache) == IF cache.isNull THEN getDefaultNews ELSE cache.items

\* ------------------------------------------------------- upstream answers
\* What the headline fetch of line 68 can come back with.
NewsOutcomes ==
    {[kind |-> k, articles |-> <<>>, parsed |-> <<>>] : k \in {"reject", "status"}}
    \cup {[kind |-> "ok", articles |-> b, parsed |-> <<>>] : b \in Batches}

\* What message.content can parse to when it is an array: an array of objects,
\* from empty to one longer than the largest batch.
ParsedArrays ==
    UNION {[1..n -> {"obj"}] : n \in 0..(Min(MaxArticles, PageSize) + 1)}

AIFailureKinds == {"reject", "status", "format", "parse", "nonarray"}

\* What the rewrite fetch of line 114 can come back with.
AIOutcomes ==
    {[kind |-> k, articles |-> <<>>, parsed |-> <<>>] : k \in AIFailureKinds}
    \cup {[kind |-> "array", articles |-> <<>>, parsed |-> p] : p \in ParsedArrays}

NoInput == [kind |-> "none", articles |-> <<>>, parsed |-> <<>>]

\* error.message of what the try block of lines 107-176 throws.
AIErrorMessage(kind) ==
    CASE kind = "reject"   -> "AI error: fetch failed"
      [] kind = "status"   -> "AI error: AI API status"
      [] kind = "format"   -> "AI error: AI API bad format"
      [] kind = "parse"    -> "AI error: SyntaxError"
      [] OTHER             -> "AI error: TypeError"

NO_KEY_MESSAGE == "no API_KEY"

\* parsedArray.map(...) of lines 164-175: articles[index].source of an index
\* beyond the batch throws a TypeError.
MapThrows(parsedArray, articles) ==
    \E index \in 1..Len(parsedArray) : index > Len(articles)

MapParsed(parsedArray, articles) ==
    [index \in 1..Len(parsedArray) |->
        [id |-> index,
         title |-> "zh-title",
         category |-> "ai-category",
         aiInsight |-> "ai-insight",
         originalTitle |-> articles[index].title]]

\* mutant: the catch of line 177 leaves processedNews empty
ProcessAINoFallback(outcome, articles) ==
    IF outcome.kind # "array" \/ MapThrows(outcome.parsed, articles)
    THEN <<>>
    ELSE MapParsed(outcome.parsed, articles)

\* Lines 107-181: processedNews from the answer of the rewrite service.
ProcessAI(outcome, articles) ==
    IF outcome.kind # "array"
    THEN createFallbackNews(articles, AIErrorMessage(outcome.kind))
    ELSE IF MapThrows(outcome.parsed, articles)
         THEN createFallbackNews(articles, AIErrorMessage("TypeError"))
         ELSE MapParsed(outcome.parsed, articles)

\* ------------------------------------------------------------- responses
NoResp == [kind |-> "none", success |-> FALSE, news |-> <<>>,
           fromCache |-> FALSE, message |-> "", error |-> ""]

\* mutant: the preflight falls through to a JSON answer
EmptyRespWithBody ==
    [kind |-> "json", success |-> TRUE, news |-> getDefaultNews,
     fromCache |-> FALSE, message |-> "", error |-> ""]

\* res.status(200).end()
EmptyResp == [NoResp EXCEPT !.kind = "empty"]

Json(success, news, fromCache, message, error) ==
    [kind |-> "json", success |-> success, news |-> news,
     fromCache |-> fromCache, message |-> message, error |-> error]

\* mutant: the cache hit is not flagged
CacheHitResponseUnflagged(cache) == Json(TRUE, cache.items, FALSE, "", "")

\* lines 31-36
CacheHitResponse(cache) == Json(TRUE, cache.items, TRUE, "", "")

\* lines 42-48
QuotaResponse(cache) ==
    Json(TRUE, CacheOrDefault(cache), TRUE, "daily limit reached", "")

\* lines 88-93
SameContentResponse(cache) == Json(TRUE, cache.items, TRUE, "", "")

\* mutant: the refreshed list is flagged as cached
RefreshResponseFromCache(processedNews) == Json(TRUE, processedNews, TRUE, "", "")

\* lines 191-197
RefreshResponse(processedNews) == Json(TRUE, processedNews, FALSE, "", "")

\* mutant: the error path reports success
ErrorResponseSuccess(cache, message) ==
    Json(TRUE, CacheOrDefault(cache), TRUE, "", message)

\* lines 199-208
ErrorResponse(cache, message) ==
    Json(FALSE, CacheOrDefault(cache), TRUE, "", message)

\* ------------------------------------------------------------ the handler
\* mutant: the comparison is reversed
CacheIsValidReversed(cache, timestamp, now) ==
    /\ ~cache.isNull
    /\ timestamp # 0
    /\ now - timestamp > CACHE_DURATION

\* line 29: newsCache && cacheTimestamp && (now - cacheTimestamp < CACHE_DURATION)
\* (cacheTimestamp = null is modelled as 0: both are falsy, and Date.now() > 0)
CacheIsValid(cache, timestamp, now) ==
    /\ ~cache.isNull
    /\ timestamp # 0
    /\ now - timestamp < CACHE_DURATION

\* mutant: off by one
QuotaExceededStrict(count) == count > MAX_DAILY_REQUESTS

\* line 40
QuotaExceeded(count) == count >= MAX_DAILY_REQUESTS

\* mutant: resets on every request of the day
DateChangedOrSame(currentDate, resetDate) == currentDate >= resetDate

\* line 22
DateChanged(currentDate, resetDate) == currentDate # resetDate

\* mutant: the attempt is not counted
IncrementNone(count) == count

\* line 108
Increment(count) == count + 1

\* mutant: the timestamp is cleared instead of set
StampCleared(now) == 0

\* lines 87, 189: cacheTimestamp = now, the instant captured at line 28
Stamp(now) == now

\* mutant: an empty article list is not treated as a failure
FetchFailedIgnoringEmpty(outcome) == outcome.kind # "ok"

\* mutant: only a rejected fetch is treated as a failure
FetchFailedOnlyReject(outcome) == outcome.kind = "reject"

\* lines 72-82: the headline fetch rejected, answered a non-ok status, or
\* answered without articles
FetchFailed(outcome) == outcome.kind # "ok" \/ Len(outcome.articles) = 0

IdleReq == [pc |-> "idle", now |-> 0, articles |-> <<>>]

Observe(r, op, path, call, input, resp) ==
    [r |-> r, op |-> op, path |-> path, call |-> call,
     input |-> input, resp |-> resp]

Init ==
    /\ newsCache = NullCache
    /\ cacheTimestamp = 0
    /\ dailyRequestCount = 0
    /\ clock = 1
    /\ lastResetDate = DateOf(1)
    /\ env \in [NEWS_API_KEY : BOOLEAN, API_KEY : BOOLEAN,
                concurrency : 1..Cardinality(Reqs)]
    /\ req = [r \in Reqs |-> IdleReq]
    /\ last = Observe(1, "init", "none", "none", NoInput, NoResp)
    /\ cacheSource = <<>>
    /\ resetLog = <<>>

\* the number of invocations between awaits; the platform runs at most
\* env.concurrency of them at the same time
InFlight == Cardinality({q \in Reqs : req[q].pc # "idle"})

\* lines 15-17
Options(r) ==
    /\ req[r].pc = "idle"
    /\ last' = Observe(r, "options", "options", "none", NoInput, EmptyResp)
    /\ UNCHANGED <<newsCache, cacheTimestamp, dailyRequestCount, lastResetDate,
                   env, clock, req, cacheSource, resetLog>>

\* lines 19-70: a GET request up to its first await
Start(r) ==
    /\ req[r].pc = "idle"
    /\ \A q \in Reqs : q < r => req[q].pc # "idle"
    /\ InFlight < env.concurrency
    /\ LET currentDate == DateOf(clock)
           reset == DateChanged(currentDate, lastResetDate)
           count == IF reset THEN 0 ELSE dailyRequestCount
           now == clock
       IN  /\ dailyRequestCount' = count
           /\ lastResetDate' = IF reset THEN currentDate ELSE lastResetDate
           /\ resetLog' = IF reset THEN Append(resetLog, currentDate) ELSE resetLog
           /\ UNCHANGED <<newsCache, cacheTimestamp, env, clock, cacheSource>>
           /\ IF CacheIsValid(newsCache, cacheTimestamp, now)
              THEN /\ last' = Observe(r, "start", "fresh", "none", NoInput,
                                      CacheHitResponse(newsCache))
                   /\ UNCHANGED req
              ELSE IF QuotaExceeded(count)
              THEN /\ last' = Observe(r, "start", "quota", "none", NoInput,
                                      QuotaResponse(newsCache))
                   /\ UNCHANGED req
              ELSE IF ~env.NEWS_API_KEY
              THEN /\ last' = Observe(r, "start", "error", "none", NoInput,
                                      ErrorResponse(newsCache, "NEWS_API_KEY not set"))
                   /\ UNCHANGED req
              ELSE /\ last' = Observe(r, "start", "pending", "news", NoInput, NoResp)
                   /\ req' = [req EXCEPT ![r] = [pc |-> "awaitNews", now |-> now,
                                                 articles |-> <<>>]]

\* lines 72-146: the headline fetch has resolved
NewsReturn(r, outcome) ==
    /\ req[r].pc = "awaitNews"
    /\ UNCHANGED <<lastResetDate, env, clock, resetLog>>
    /\ LET articles == outcome.articles
           now == req[r].now
       IN  IF FetchFailed(outcome)
           THEN /\ last' = Observe(r, "newsReturn", "error", "none", outcome,
                        ErrorResponse(newsCache,
                            CASE outcome.kind = "reject" -> "fetch failed"
                              [] outcome.kind = "status" -> "NewsAPI request failed"
                              [] OTHER -> "NewsAPI returned an empty list"))
                /\ req' = [req EXCEPT ![r] = IdleReq]
                /\ UNCHANGED <<newsCache, cacheTimestamp, dailyRequestCount, cacheSource>>
           ELSE IF ~newsCache.isNull /\ articlesAreSame(articles, newsCache)
           THEN /\ cacheTimestamp' = Stamp(now)
                /\ last' = Observe(r, "newsReturn", "same", "none", outcome,
                                   SameContentResponse(newsCache))
                /\ req' = [req EXCEPT ![r] = IdleReq]
                /\ UNCHANGED <<newsCache, dailyRequestCount, cacheSource>>
           ELSE IF env.API_KEY
           THEN /\ dailyRequestCount' = Increment(dailyRequestCount)
                /\ last' = Observe(r, "newsReturn", "pending", "ai", outcome, NoResp)
                /\ req' = [req EXCEPT ![r] = [pc |-> "awaitAI", now |-> now,
                                              articles |-> articles]]
                /\ UNCHANGED <<newsCache, cacheTimestamp, cacheSource>>
           ELSE LET processedNews == createFallbackNews(articles, NO_KEY_MESSAGE)
                IN  /\ newsCache' = CacheOf(processedNews)
                    /\ cacheTimestamp' = Stamp(now)
                    /\ cacheSource' = articles
                    /\ last' = Observe(r, "newsReturn", "refresh", "none", outcome,
                                       RefreshResponse(processedNews))
                    /\ req' = [req EXCEPT ![r] = IdleReq]
                    /\ UNCHANGED dailyRequestCount

\* lines 148-197: the rewrite fetch has resolved
AIReturn(r, outcome) ==
    /\ req[r].pc = "awaitAI"
    /\ LET articles == req[r].articles
           processedNews == ProcessAI(outcome, articles)
       IN  /\ newsCache' = CacheOf(processedNews)
           /\ cacheTimestamp' = Stamp(req[r].now)
           /\ cacheSource' = articles
           /\ last' = Observe(r, "aiReturn", "refresh", "none", outcome,
                              RefreshResponse(processedNews))
    /\ req' = [req EXCEPT ![r] = IdleReq]
    /\ UNCHANGED <<dailyRequestCount, lastResetDate, env, clock, resetLog>>

\* the wall clock advances
Tick ==
    /\ clock < MaxClock
    /\ clock' = clock + 1
    /\ last' = Observe(1, "tick", "none", "none", NoInput, NoResp)
    /\ UNCHANGED <<newsCache, cacheTimestamp, dailyRequestCount, lastResetDate,
                   env, req, cacheSource, resetLog>>

Next ==
    \/ \E r \in Reqs : Options(r)
    \/ \E r \in Reqs : Start(r)
    \/ \E r \in Reqs : \E outcome \in NewsOutcomes : NewsReturn(r, outcome)
    \/ \E r \in Reqs : \E outcome \in AIOutcomes : AIReturn(r, outcome)
    \/ Tick

Spec == Init /\ [][Next]_vars

\* ------------------------------------------- the helpers on their own
\* articlesAreSame and createFallbackNews applied to arbitrary arguments:
\* article lists of up to MaxInputLen titles, a cache that is null or holds
\* rewritten items of up to PageSize articles.
InputTitles == Titles \cup {"C"}

InputBatches ==
    UNION {[1..n -> {Article(t) : t \in InputTitles}] : n \in 0..MaxInputLen}

InputCaches ==
    {NullCache} \cup
    {CacheOf(MapParsed([i \in 1..Len(b) |-> "obj"], b)) :
        b \in {c \in InputBatches : Len(c) <= PageSize}}

InputMessages == {"", NO_KEY_MESSAGE, AIErrorMessage("parse")}

InitHelpers ==
    /\ newsCache \in InputCaches
    /\ \E b \in InputBatches :
          last = Observe(1, "input", "none", "none",
                         [kind |-> "ok", articles |-> b, parsed |-> <<>>], NoResp)
    /\ cacheTimestamp = 0
    /\ dailyRequestCount = 0
    /\ clock = 1
    /\ lastResetDate = DateOf(1)
    /\ env = [NEWS_API_KEY |-> TRUE, API_KEY |-> TRUE,
              concurrency |-> Cardinality(Reqs)]
    /\ req = [r \in Reqs |-> IdleReq]
    /\ cacheSource = <<>>
    /\ resetLog = <<>>

\* line 85: articlesAreSame(articles, newsCache); the verdict is kept in path
CallArticlesAreSame ==
    /\ last.op = "input"
    /\ last' = [last EXCEPT
                  !.op = "articlesAreSame",
                  !.path = IF articlesAreSame(last.input.articles, newsCache)
                           THEN "same" ELSE "different"]
    /\ UNCHANGED <<newsCache, cacheTimestamp, dailyRequestCount, lastResetDate,
                   env, clock, req, cacheSource, resetLog>>

\* lines 180, 184: createFallbackNews(articles, message); the list is kept in
\* resp.news and the message in resp.message
CallCreateFallbackNews(errorMessage) ==
    /\ last.op = "input"
    /\ last' = [last EXCEPT
                  !.op = "createFallbackNews",
                  !.resp = Json(TRUE,
                                createFallbackNews(last.input.articles, errorMessage),
                                FALSE, errorMessage, "")]
    /\ UNCHANGED <<newsCache, cacheTimestamp, dailyRequestCount, lastResetDate,
                   env, clock, req, cacheSource, resetLog>>

NextHelpers ==
    \/ CallArticlesAreSame
    \/ \E errorMessage \in InputMessages : CallCreateFallbackNews(errorMessage)

SpecHelpers == InitHelpers /\ [][NextHelpers]_vars

\* ------------------------------------------------- upstreams that go silent
\* Lines 68-70 and 114-146: fetch is called without a signal or timeout, so a
\* call whose upstream never answers stays pending for good.
NeverAnswers(r) ==
    /\ req[r].pc \in {"awaitNews", "awaitAI"}
    /\ req' = [req EXCEPT ![r].pc = "hung"]
    /\ last' = Observe(r, "hang", "pending", "none", NoInput, NoResp)
    /\ UNCHANGED <<newsCache, cacheTimestamp, dailyRequestCount, lastResetDate,
                   env, clock, cacheSource, resetLog>>

NextLive ==
    \/ Next
    \/ \E r \in Reqs : NeverAnswers(r)

\* The event loop runs the continuation of every fetch that settles.
Fairness ==
    \A r \in Reqs :
        /\ WF_vars(\E outcome \in NewsOutcomes : NewsReturn(r, outcome))
        /\ WF_vars(\E outcome \in AIOutcomes : AIReturn(r, outcome))

SpecLive == Init /\ [][NextLive]_vars /\ Fairness

\* ================================================================ claims
Range(s) == {s[i] : i \in 1..Len(s)}

GetStarted == last'.op = "start"

\* the cache entry exists and is younger than CACHE_DURATION at this instant
FreshNow == ~newsCache.isNull /\ clock - cacheTimestamp < CACHE_DURATION

\* the counter has reached the daily limit on the current calendar day
QuotaReachedToday ==
    DateOf(clock) = lastResetDate /\ dailyRequestCount >= MAX_DAILY_REQUESTS

\* titles equal the cached items' originalTitle position by position
TitlesMatchCache(articles) ==
    /\ Len(articles) = Len(newsCache.items)
    /\ \A i \in 1..Len(articles) :
          articles[i].title = newsCache.items[i].originalTitle

\* items are the Fallback Composer's items for the whole batch
IsFallbackFor(news, articles) ==
    /\ Len(news) = Len(articles)
    /\ \A i \in 1..Len(news) :
          /\ news[i].id = i
          /\ news[i].originalTitle = articles[i].title
          /\ news[i].title = articles[i].title
          /\ news[i].category = FALLBACK_CATEGORY

\* C1 (as stated): a GET handled while the cache is fresh answers with the
\* cached items, fromCache=true, success=true, calls no upstream service and
\* leaves newsCache, cacheTimestamp and dailyRequestCount unchanged.
C1_Original ==
    [][(GetStarted /\ FreshNow) =>
         /\ last'.resp = Json(TRUE, newsCache.items, TRUE, "", "")
         /\ last'.call = "none"
         /\ newsCache' = newsCache
         /\ cacheTimestamp' = cacheTimestamp
         /\ dailyRequestCount' = dailyRequestCount]_vars

\* C1 (amended): as C1, except that dailyRequestCount is unchanged only when
\* the request observes the date of lastResetDate; a request that observes a
\* new calendar date sets it to 0 before it serves the cache.
C1_FreshCacheHit ==
    [][(GetStarted /\ FreshNow) =>
         /\ last'.resp = Json(TRUE, newsCache.items, TRUE, "", "")
         /\ last'.call = "none"
         /\ newsCache' = newsCache
         /\ cacheTimestamp' = cacheTimestamp
         /\ dailyRequestCount' =
               IF DateOf(clock) = lastResetDate THEN dailyRequestCount ELSE 0]_vars

\* a cache hit by the request that observed the new date
C1_Witness ==
    /\ last.op = "start" /\ last.path = "fresh"
    /\ last.resp.fromCache /\ Len(last.resp.news) >= 1
    /\ resetLog # <<>> /\ lastResetDate = DateOf(clock)
    /\ DateOf(cacheTimestamp) # lastResetDate

\* C2 (as stated): a GET handled while dailyRequestCount >= MAX_DAILY_REQUESTS
\* on the current day answers, whatever the age of the cache, with the cache
\* or the default list, fromCache=true and an advisory message, increments no
\* counter and calls no upstream service.
C2_Original ==
    [][(GetStarted /\ QuotaReachedToday) =>
         /\ last'.resp.kind = "json"
         /\ last'.resp.news = CacheOrDefault(newsCache)
         /\ last'.resp.fromCache
         /\ last'.resp.message # ""
         /\ last'.call = "none"
         /\ dailyRequestCount' = dailyRequestCount]_vars

\* C2 (amended): as C2, but the advisory message is attached only when the
\* cache is absent or expired; while the cache is fresh the response is the
\* cache hit, without a message.
C2_QuotaExceeded ==
    [][(GetStarted /\ QuotaReachedToday) =>
         /\ last'.resp.kind = "json"
         /\ last'.resp.news = CacheOrDefault(newsCache)
         /\ last'.resp.fromCache
         /\ last'.resp.success
         /\ (last'.resp.message # "") = ~FreshNow
         /\ last'.call = "none"
         /\ dailyRequestCount' = dailyRequestCount]_vars

\* the quota branch has answered, from an expired cache
C2_Witness ==
    /\ last.op = "start" /\ last.path = "quota"
    /\ last.resp.message # ""
    /\ ~newsCache.isNull /\ last.resp.news = newsCache.items
    /\ dailyRequestCount >= MAX_DAILY_REQUESTS

\* C3: a headline answer with a non-empty batch whose titles equal the
\* cached originalTitles gets the cached items with fromCache=true, issues no
\* rewrite call, leaves dailyRequestCount and the cached items unchanged and
\* sets cacheTimestamp to the request's now.
C3_SameContent ==
    [][(/\ last'.op = "newsReturn"
        /\ last'.input.kind = "ok"
        /\ Len(last'.input.articles) >= 1
        /\ ~newsCache.isNull
        /\ TitlesMatchCache(last'.input.articles)) =>
         /\ last'.resp = Json(TRUE, newsCache.items, TRUE, "", "")
         /\ last'.call = "none"
         /\ dailyRequestCount' = dailyRequestCount
         /\ newsCache' = newsCache
         /\ cacheTimestamp' = req[last'.r].now]_vars

\* the same-content branch has extended the freshness of a rewritten cache
C3_Witness ==
    /\ last.op = "newsReturn" /\ last.path = "same"
    /\ Len(newsCache.items) >= 1
    /\ newsCache.items[1].category # FALLBACK_CATEGORY
    /\ cacheTimestamp = clock

\* C4: every rewrite call attempt increments dailyRequestCount by exactly
\* one, whatever the call answers; the answer never changes the counter; and
\* the counter grows on no other step.
C4_CountPerAttempt ==
    [][/\ (last'.call = "ai" => dailyRequestCount' = dailyRequestCount + 1)
       /\ (dailyRequestCount' > dailyRequestCount =>
              last'.call = "ai" /\ dailyRequestCount' = dailyRequestCount + 1)
       /\ (last'.op = "aiReturn" => dailyRequestCount' = dailyRequestCount)]_vars

\* a failed rewrite call has been answered and its attempt is still counted
C4_Witness ==
    /\ last.op = "aiReturn"
    /\ last.input.kind \in AIFailureKinds
    /\ dailyRequestCount >= 1
    /\ resetLog = <<>>

\* C5: a parseable array whose length differs from the batch is rejected:
\* the items returned and cached are the Fallback Composer's for the whole batch.
C5_LengthMismatchRejected ==
    [][(/\ last'.op = "aiReturn"
        /\ last'.input.kind = "array"
        /\ Len(last'.input.parsed) # Len(req[last'.r].articles)) =>
         /\ IsFallbackFor(last'.resp.news, req[last'.r].articles)
         /\ newsCache' = CacheOf(last'.resp.news)]_vars

\* C6: the cache is absent or holds 1..3 items, as many as the batch that
\* produced it, with originalTitle equal to the batch's titles in order.
C6_CacheShape ==
    \/ newsCache.isNull
    \/ /\ Len(newsCache.items) \in 1..3
       /\ Len(newsCache.items) = Len(cacheSource)
       /\ \A i \in 1..Len(newsCache.items) :
             newsCache.items[i].originalTitle = cacheSource[i].title

\* C7: every response envelope carries at least one news item.
C7_NewsNeverEmpty ==
    last.resp.kind = "json" => Len(last.resp.news) >= 1

C9_SourceFailure ==
    [][(\/ (GetStarted /\ ~env.NEWS_API_KEY)
        \/ /\ last'.op = "newsReturn"
           /\ \/ last'.input.kind = "status"
              \/ last'.input.kind = "ok" /\ Len(last'.input.articles) = 0) =>
         /\ last'.resp.kind = "json"
         /\ ~last'.resp.success
         /\ last'.resp.error # ""
         /\ last'.resp.news =
               IF newsCache.isNull THEN getDefaultNews ELSE newsCache.items
         /\ last'.call = "none"
         /\ dailyRequestCount' = dailyRequestCount]_vars

\* an empty headline list has been answered from an existing cache
C9_Witness ==
    /\ last.op = "newsReturn" /\ last.path = "error"
    /\ last.input.kind = "ok"
    /\ ~last.resp.success
    /\ ~newsCache.isNull /\ last.resp.news = newsCache.items

\* C10: the counter is set to 0 exactly once per observed date change (the
\* first GET that observes the new date resets it, no later one does), and no
\* other step decreases it.
C10_ResetOncePerDay ==
    [][/\ (dailyRequestCount' < dailyRequestCount =>
              Len(resetLog') = Len(resetLog) + 1)
       /\ (Len(resetLog') # Len(resetLog) =>
              /\ resetLog' = Append(resetLog, DateOf(clock))
              /\ dailyRequestCount' = 0
              /\ DateOf(clock) # lastResetDate
              /\ DateOf(clock) \notin Range(resetLog))
       /\ ((GetStarted /\ DateOf(clock) # lastResetDate) =>
              Len(resetLog') = Len(resetLog) + 1)]_vars

\* two overlapping requests, both started on the new date, one reset
C10_Witness ==
    /\ Len(resetLog) = 1
    /\ \A r \in Reqs : req[r].pc # "idle" /\ DateOf(req[r].now) = lastResetDate
    /\ dailyRequestCount >= 1

\* C11: with at most K requests in flight at the same time (env.concurrency)
\* dailyRequestCount never exceeds MAX_DAILY_REQUESTS + K - 1; with K = 1 it
\* never exceeds MAX_DAILY_REQUESTS.
C11_BoundedOvershoot ==
    dailyRequestCount <= MAX_DAILY_REQUESTS + env.concurrency - 1

\* two overlapping requests have both paid: the budget is exceeded by K - 1
C11_Witness ==
    /\ env.concurrency = 2
    /\ dailyRequestCount = MAX_DAILY_REQUESTS + 1
    /\ last.call = "ai"

C13_SingleAttempt ==
    [][/\ (last'.call = "news" =>
              /\ last'.op = "start"
              /\ req[last'.r].pc = "idle"
              /\ req'[last'.r].pc = "awaitNews")
       /\ (last'.call = "ai" =>
              /\ last'.op = "newsReturn"
              /\ last'.input.kind = "ok"
              /\ Len(last'.input.articles) >= 1
              /\ req[last'.r].pc = "awaitNews"
              /\ req'[last'.r].pc = "awaitAI"
              /\ req'[last'.r].articles = last'.input.articles)
       /\ ((last'.op \in {"newsReturn", "aiReturn"} /\ last'.call = "none") =>
              /\ req'[last'.r].pc = "idle"
              /\ last'.resp.kind = "json")
       /\ (\A r \in Reqs : req'[r].pc # req[r].pc => r = last'.r)]_vars

\* a rejected rewrite call has ended its request, with no second attempt
C13_Witness ==
    /\ last.op = "aiReturn" /\ last.input.kind = "reject"
    /\ last.call = "none"
    /\ req[last.r].pc = "idle"
    /\ last.resp.kind = "json"

\* C14: every GET request eventually emits its response, also when an
\* upstream never answers its call.
C14_EveryRequestAnswered ==
    \A r \in Reqs : (req[r].pc # "idle") ~> (req[r].pc = "idle")

TitlesOf(articles) == [i \in 1..Len(articles) |-> articles[i].title]

OriginalTitlesOf(items) == [i \in 1..Len(items) |-> items[i].originalTitle]

\* C15: articlesAreSame is true iff the cache exists, the lengths are equal
\* and every title equals the cached originalTitle at its index; in
\* particular new titles [B,A,C] against cached [A,B,C] are not the same.
C15_ArticlesAreSame ==
    last.op = "articlesAreSame" =>
        /\ (last.path = "same") =
              (/\ ~newsCache.isNull
               /\ Len(last.input.articles) = Len(newsCache.items)
               /\ \A i \in 1..Len(last.input.articles) :
                     last.input.articles[i].title =
                        newsCache.items[i].originalTitle)
        /\ ((/\ ~newsCache.isNull
             /\ OriginalTitlesOf(newsCache.items) = <<"A", "B", "C">>
             /\ TitlesOf(last.input.articles) = <<"B", "A", "C">>)
               => last.path = "different")

\* the swapped batch has been compared and found different
C15_Witness ==
    /\ last.op = "articlesAreSame"
    /\ ~newsCache.isNull
    /\ OriginalTitlesOf(newsCache.items) = <<"A", "B", "C">>
    /\ TitlesOf(last.input.articles) = <<"B", "A", "C">>
    /\ last.path = "different"

AbsentOrStaleAt(t) == newsCache.isNull \/ t - cacheTimestamp >= CACHE_DURATION

\* C17 (as stated): under any interleaving, the cache is absent or stale at
\* the moment a rewrite call is issued.
C17_Original ==
    [][last'.call = "ai" => AbsentOrStaleAt(clock)]_vars

\* C17 (amended): a rewrite call is issued only for a batch whose titles
\* differ from the current cache; when requests do not overlap (K = 1) the
\* cache is absent or stale at that moment, already at the request's now.
\* Overlapping requests that both found the cache stale each pay, also after
\* one of them has made the cache fresh.
C17_PaysOnlyWhenStale ==
    [][last'.call = "ai" =>
         /\ ~(~newsCache.isNull /\ TitlesMatchCache(last'.input.articles))
         /\ (env.concurrency = 1 => AbsentOrStaleAt(req[last'.r].now))]_vars

\* without overlap, a rewrite call has been issued against an expired cache
C17_Witness ==
    /\ env.concurrency = 1
    /\ last.call = "ai"
    /\ ~newsCache.isNull
    /\ Len(newsCache.items) >= 1
    /\ clock - cacheTimestamp >= CACHE_DURATION

\* C18 (as stated): cacheTimestamp never decreases, and the cache is never
\* overwritten by a request that started before the one whose result it holds.
C18_Original ==
    [][/\ cacheTimestamp' >= cacheTimestamp
       /\ (newsCache' # newsCache => req[last'.r].now >= cacheTimestamp)]_vars

\* C18 (amended): the last request to complete wins: every write of the
\* cache stores the writing request's own result and stamps it with that
\* request's now, whatever the cache held; cacheTimestamp changes on no other
\* step, never exceeds the clock, and never decreases when requests do not
\* overlap (K = 1).
C18_LastWriterWins ==
    [][/\ (newsCache' # newsCache =>
              /\ last'.path = "refresh"
              /\ newsCache' = CacheOf(last'.resp.news)
              /\ cacheTimestamp' = req[last'.r].now)
       /\ (cacheTimestamp' # cacheTimestamp =>
              /\ last'.path \in {"same", "refresh"}
              /\ cacheTimestamp' = req[last'.r].now
              /\ cacheTimestamp' <= clock)
       /\ (env.concurrency = 1 => cacheTimestamp' >= cacheTimestamp)]_vars

\* the cache holds the result of a request that started before one that is
\* still in flight
C18_Witness ==
    /\ env.concurrency = 2
    /\ last.op = "aiReturn"
    /\ newsCache.items = last.resp.news
    /\ \E q \in Reqs : req[q].pc # "idle" /\ req[q].now > cacheTimestamp

\* C19: a GET that ends on the error path (no headline key, failed headline
\* fetch, empty list) leaves newsCache, cacheTimestamp and dailyRequestCount as
\* they were when it reached the fetch step, i.e. after its own day reset.
C19_ErrorPathFrame ==
    [][/\ ((GetStarted /\ ~env.NEWS_API_KEY) =>
              /\ newsCache' = newsCache
              /\ cacheTimestamp' = cacheTimestamp
              /\ dailyRequestCount' =
                    IF DateOf(clock) = lastResetDate THEN dailyRequestCount ELSE 0)
       /\ ((/\ last'.op = "newsReturn"
            /\ \/ last'.input.kind \in {"reject", "status"}
               \/ Len(last'.input.articles) = 0) =>
              /\ ~last'.resp.success
              /\ newsCache' = newsCache
              /\ cacheTimestamp' = cacheTimestamp
              /\ dailyRequestCount' = dailyRequestCount)]_vars

\* a non-ok headline answer has been reported and the cache is still there
C19_Witness ==
    /\ last.op = "newsReturn" /\ last.input.kind = "status"
    /\ ~last.resp.success
    /\ ~newsCache.isNull /\ Len(newsCache.items) >= 1
    /\ cacheTimestamp < clock

\* C20: an OPTIONS request answers without body, changes none of newsCache,
\* cacheTimestamp, dailyRequestCount, lastResetDate and calls no upstream.
C20_OptionsFrame ==
    [][last'.op = "options" =>
         /\ last'.resp.kind = "empty"
         /\ last'.resp.news = <<>>
         /\ last'.call = "none"
         /\ UNCHANGED <<newsCache, cacheTimestamp, dailyRequestCount,
                        lastResetDate, req>>]_vars

\* a preflight after the day boundary has not reset the counter
C20_Witness ==
    /\ last.op = "options"
    /\ last.resp.kind = "empty"
    /\ DateOf(clock) # lastResetDate
    /\ dailyRequestCount >= 1

====
